---- MODULE Spec2Model ----
(***************************************************************************)
(* Model of core/blockchain.go: the BlockChain type, its bootstrap         *)
(* (NewBlockChain), the head reconciler (SetTailBlock), the ancestor       *)
(* resolver (FindCommonAncestorWithTail), the ingest of verified blocks    *)
(* (putVerifiedNewBlocks) and the readers built on GetBlock.               *)
(*                                                                         *)
(* A block is identified with its hash.  The blocks that can ever exist    *)
(* form a fixed tree: block 0 is the genesis block, blocks 1 and 2 are its *)
(* children and block b > 2 is the child of block b - 2, so two branches   *)
(* fork at the genesis block and grow side by side.                        *)
(*                                                                         *)
(* Storage writes (Put) can fail; a failed Put leaves the storage          *)
(* unchanged.  Storage reads made by a running chain return the stored     *)
(* value or key-not-found; read errors are modelled at bootstrap only.     *)
(*                                                                         *)
(* Spec runs every handler as one action, the failing Put being an input.  *)
(* PutSpec runs putVerifiedNewBlocks one cache or storage mutation at a    *)
(* time, and SetSpec runs SetTailBlock one storage operation at a time, so *)
(* that every state a concurrent reader can observe between the steps is a *)
(* state of the model.  BootSpec restarts the chain under any genesis      *)
(* configuration and any storage fault of the bootstrap.                   *)
(***************************************************************************)
EXTENDS Integers, Sequences, FiniteSets, TLC

\* The largest block of the block tree (blocks are 0..MaxBlock).
MaxBlock == 4

\* The most blocks one batch of verified blocks holds.
MaxBatch == 2

\* The most storage Puts that fail in one run.
MaxFaults == 1

\* Capacity of the detached-tails LRU (lru.New(64) in the source, scaled).
DetachedCap == 2

\* Hash of the genesis block, the fixed anchor.
GenesisHash == 0

\* The nil *Block.
Nil == -1

\* Parent hash of the genesis block: a sentinel that no block has as hash.
SentinelHash == -2

\* The chain id of the genesis configuration.
TestNetID == 1

\* The chain ids a genesis configuration can carry: TestNetID and another one.
ChainIDs == {TestNetID, TestNetID + 1}

Blocks == 0..MaxBlock

\* Block.ParentHash() / header.parentHash
ParentHash(b) ==
    IF b = GenesisHash THEN SentinelHash
    ELSE IF b <= 2 THEN GenesisHash
    ELSE b - 2

RECURSIVE Height(_)
\* Block.Height() / block.height: genesis has height 0, a child one more than its parent.
Height(b) == IF b = GenesisHash THEN 0 ELSE Height(ParentHash(b)) + 1

Heights == 0..Height(MaxBlock)

VARIABLES
    storage,            \* bc.storage: [blocks, index, tail, chainid]
    pc,                 \* position of the chain's single writer thread
    tailBlock,          \* bc.tailBlock
    cachedBlocks,       \* bc.cachedBlocks (keys)
    detachedTailBlocks, \* bc.detachedTailBlocks (keys, least recently used first)
    call,               \* the running (or just returned) call: arguments, locals, effects
    hist                \* history: what the storage has been through

vars == <<storage, pc, tailBlock, cachedBlocks, detachedTailBlocks, call, hist>>

-----------------------------------------------------------------------------
(* Storage *)

EmptyStorage ==
    [blocks  |-> {},                          \* block hash -> block
     index   |-> [h \in Heights |-> Nil],     \* height -> block hash
     tail    |-> Nil,                         \* blockchain_tail -> tail block hash
     chainid |-> 0]                           \* chain id of the stored genesis block

\* LoadBlockFromStorage(hash, storage, ...): the block, or nil with an error.
LoadBlockFromStorage(st, hash) == IF hash \in st.blocks THEN hash ELSE Nil

\* bc.storage.Put(block.Hash(), value) of storeBlockToStorage
StoreBlock(st, b) == [st EXCEPT !.blocks = @ \cup {b}]

\* bc.storage.Put(byteutils.FromUint64(height), hash)
PutIndex(st, h, b) == [st EXCEPT !.index[h] = b]

\* storeTailToStorage
StoreTail(st, b) == [st EXCEPT !.tail = b]


-----------------------------------------------------------------------------
(* Reads of the running chain *)

\* GetBlock: the block cache first, then the storage; nil on any miss.
GetBlock(hash) ==
    IF hash \in cachedBlocks THEN hash ELSE LoadBlockFromStorage(storage, hash)

\* GetBlockByHeight: the height index, then GetBlock; nil on any miss.
GetBlockByHeight(height) ==
    IF height \notin Heights \/ storage.index[height] = Nil
    THEN Nil
    ELSE GetBlock(storage.index[height])

\* DetachedTailBlocks: every key of the LRU, dereferenced.
DetachedTailBlocks == {detachedTailBlocks[k] : k \in 1..Len(detachedTailBlocks)}

-----------------------------------------------------------------------------
(* The call in progress, or the call that just returned *)

NoCall ==
    [op       |-> "none",    \* "boot", "put" or "set"
     result   |-> "",        \* "" while running, then "ok" or the error
     parent   |-> Nil,       \* put: parent
     all      |-> <<>>,      \* put: allBlocks
     tails    |-> <<>>,      \* put: tailBlocks
     i        |-> 0,         \* put: position of the range loop
     newTail  |-> Nil,       \* set: newTail
     oldTail  |-> Nil,       \* set: oldTail
     ancestor |-> Nil,       \* set: ancestor
     returned |-> <<>>,      \* set: the blocks ReturnTransactions was invoked on, in order
     revertErr |-> "",       \* set: the error of revertBlocks
     puts     |-> 0,         \* how many storage Puts of the call succeeded
     cfg      |-> 0,         \* boot: the chain id of the genesis configuration
     fault    |-> "none",    \* boot: the storage fault the call met
     pre      |-> EmptyStorage,  \* the storage when the call began
     preDetached |-> <<>>]   \* the detached-tails LRU when the call began

NoHist ==
    [setFailed   |-> FALSE,  \* a SetTailBlock returned an error
     unstored    |-> FALSE,  \* a SetTailBlock was given a block that is not in the block store
     partial     |-> FALSE,  \* a SetTailBlock failed while it built the index, entries
                             \* written, and none has succeeded since
     lastHead    |-> Nil,    \* the head the chain last set: genesis, then each new tail
     genesisMade |-> 0,      \* how many genesis blocks were constructed and written (capped)
     faults      |-> 0]      \* how many storage Puts failed

Init ==
    /\ storage = EmptyStorage
    /\ pc = "down"
    /\ tailBlock = Nil
    /\ cachedBlocks = {}
    /\ detachedTailBlocks = <<>>
    /\ call = NoCall
    /\ hist = NoHist

-----------------------------------------------------------------------------
(* Bootstrap *)

\* The storage faults a bootstrap can meet, at most one per call: an error of
\* the first genesis read, of the Put of the genesis record or of its height
\* key, of DumpGenesis, of the Get of the tail key, of the second genesis
\* read, of the Put of the tail key, of the load of the tail block.
BootFaults ==
    {"none", "readGenesis", "putGenesis", "putGenesisHeight", "dumpGenesis",
     "getTail", "readGenesisAgain", "putTail", "loadTail"}

\* A loadGenesisFromStorage that writes the genesis record without its height key.
loadGenesisNoHeightKey(st, cfg, readErr, putErr, idxErr) ==
    IF readErr \/ LoadBlockFromStorage(st, GenesisHash) = Nil
    THEN IF putErr
         THEN [st |-> st, err |-> "ErrStorage", wrote |-> 0]
         ELSE [st |-> [StoreBlock(st, GenesisHash) EXCEPT !.chainid = cfg],
               err |-> "", wrote |-> 1]
    ELSE IF cfg # st.chainid
         THEN [st |-> st, err |-> "ErrGenesisConfNotMatch", wrote |-> 0]
         ELSE [st |-> st, err |-> "", wrote |-> 0]

\* loadGenesisFromStorage; wrote = 1 when a constructed genesis block was written.
loadGenesisFromStorage(st, cfg, readErr, putErr, idxErr) ==
    IF readErr \/ LoadBlockFromStorage(st, GenesisHash) = Nil
    THEN \* NewGenesisBlock(bc.genesis, bc), then storeBlockToStorage and the height key
         IF putErr
         THEN [st |-> st, err |-> "ErrStorage", wrote |-> 0]
         ELSE LET s1 == [StoreBlock(st, GenesisHash) EXCEPT !.chainid = cfg] IN
              IF idxErr
              THEN [st |-> s1, err |-> "ErrStorage", wrote |-> 1]
              ELSE [st    |-> PutIndex(s1, Height(GenesisHash), GenesisHash),
                    err   |-> "", wrote |-> 1]
    ELSE IF cfg # st.chainid
         THEN [st |-> st, err |-> "ErrGenesisConfNotMatch", wrote |-> 0]
         ELSE [st |-> st, err |-> "", wrote |-> 0]

\* loadTailFromStorage
loadTailFromStorage(st, cfg, fault) ==
    IF fault = "getTail"
    THEN [st |-> st, err |-> "ErrStorage", tail |-> Nil, wrote |-> 0]
    ELSE IF st.tail = Nil    \* storage.ErrKeyNotFound
         THEN LET g == loadGenesisFromStorage(st, cfg, fault = "readGenesisAgain",
                                              FALSE, FALSE) IN
              IF g.err # ""
              THEN [st |-> g.st, err |-> g.err, tail |-> Nil, wrote |-> g.wrote]
              ELSE IF fault = "putTail"
                   THEN [st |-> g.st, err |-> "ErrStorage", tail |-> Nil,
                         wrote |-> g.wrote]
                   ELSE [st |-> StoreTail(g.st, GenesisHash), err |-> "",
                         tail |-> GenesisHash, wrote |-> g.wrote]
         ELSE LET b == IF fault = "loadTail" THEN Nil
                       ELSE LoadBlockFromStorage(st, st.tail) IN
              IF b = Nil
              THEN [st |-> st, err |-> "ErrLoadBlock", tail |-> Nil, wrote |-> 0]
              ELSE [st |-> st, err |-> "", tail |-> b, wrote |-> 0]

Min(a, b) == IF a < b THEN a ELSE b

\* NewBlockChain(neb): fresh caches, the genesis block, then the tail block.
\* On an error no chain is returned and the process stays down.
NewBlockChain(cfg, fault) ==
    /\ pc = "down"
    /\ LET g == loadGenesisFromStorage(storage, cfg, fault = "readGenesis",
                                       fault = "putGenesis", fault = "putGenesisHeight")
           t == loadTailFromStorage(g.st, cfg, fault)
           early == g.err # "" \/ fault = "dumpGenesis"
           err == IF g.err # "" THEN g.err
                  ELSE IF fault = "dumpGenesis" THEN "ErrStorage" ELSE t.err
           st == IF early THEN g.st ELSE t.st
           wrote == g.wrote + (IF early THEN 0 ELSE t.wrote)
       IN
       /\ storage' = st
       /\ tailBlock' = IF err = "" THEN t.tail ELSE Nil
       /\ call' = [NoCall EXCEPT !.op = "boot", !.pre = storage,
                                 !.cfg = cfg, !.fault = fault,
                                 !.result = IF err = "" THEN "ok" ELSE err]
       /\ hist' = [hist EXCEPT
                     !.genesisMade = Min(2, @ + wrote),
                     !.lastHead = IF @ = Nil /\ err = "" THEN t.tail ELSE @]
    /\ pc' = "returned"
    /\ cachedBlocks' = {}
    /\ detachedTailBlocks' = <<>>

\* The call returns to its caller; a failed bootstrap leaves no chain.
Return ==
    /\ pc = "returned"
    /\ pc' = IF call.op = "boot" /\ call.result # "ok" THEN "down" ELSE "idle"
    /\ call' = NoCall
    /\ hist' = IF call.op = "set" /\ call.result = "ok"
               THEN [hist EXCEPT !.partial = FALSE]
               ELSE hist
    /\ UNCHANGED <<storage, tailBlock, cachedBlocks, detachedTailBlocks>>

\* The process stops between calls: the storage stays, the memory is lost.
Stop ==
    /\ pc = "idle"
    /\ pc' = "down"
    /\ tailBlock' = Nil
    /\ cachedBlocks' = {}
    /\ detachedTailBlocks' = <<>>
    /\ UNCHANGED <<storage, call, hist>>

-----------------------------------------------------------------------------
(* Ancestor resolver *)

RECURSIVE WalkDownTo(_, _)
\* The height-align loops: follow parent hashes from b down to height h;
\* nil as soon as a parent is missing.
WalkDownTo(b, h) ==
    IF Height(b) > h
    THEN LET p == GetBlock(ParentHash(b)) IN
         IF p = Nil THEN Nil ELSE WalkDownTo(p, h)
    ELSE b

RECURSIVE WalkToMeet(_, _)
\* The walk-to-meet loop: both cursors one parent at a time until the hashes
\* are equal; nil as soon as a parent is missing.
WalkToMeet(tail, target) ==
    IF tail = target
    THEN target
    ELSE LET t == GetBlock(ParentHash(tail))
             g == GetBlock(ParentHash(target)) IN
         IF t = Nil \/ g = Nil THEN Nil ELSE WalkToMeet(t, g)

\* The fast check: the block is the one the height index holds at its height.
FastPathHit(block) ==
    /\ Height(tailBlock) >= Height(block)
    /\ GetBlockByHeight(Height(block)) # Nil
    /\ GetBlockByHeight(Height(block)) = block

\* The known block the search starts from: the block, else its parent.
AnchorOf(block) ==
    IF GetBlock(block) # Nil THEN GetBlock(block) ELSE GetBlock(ParentHash(block))

\* FindCommonAncestorWithTail: the ancestor, or nil for ErrMissingParentBlock.
FindCommonAncestorWithTail(block) ==
    IF FastPathHit(block)
    THEN block
    ELSE LET target == AnchorOf(block) IN
         IF target = Nil
         THEN Nil
         ELSE LET tail == WalkDownTo(tailBlock, Height(target)) IN
              IF tail = Nil
              THEN Nil
              ELSE LET tgt == WalkDownTo(target, Height(tail)) IN
                   IF tgt = Nil THEN Nil ELSE WalkToMeet(tail, tgt)

-----------------------------------------------------------------------------
(* Head reconciler *)

RECURSIVE RevertWalk(_, _, _)
\* The loop of revertBlocks: ReturnTransactions on the cursor, then its parent;
\* it ends at `from`, or with ErrMissingParentBlock at a missing parent.
RevertWalk(from, reverted, acc) ==
    IF reverted = from
    THEN [returned |-> acc, err |-> ""]
    ELSE LET p == GetBlock(ParentHash(reverted)) IN
         IF p = Nil
         THEN [returned |-> Append(acc, reverted), err |-> "ErrMissingParentBlock"]
         ELSE RevertWalk(from, p, Append(acc, reverted))

\* A revertBlocks that reverts the closed range [from, to].
revertBlocksInclusive(from, to) == RevertWalk(ParentHash(from), to, <<>>)

\* revertBlocks(from, to)
revertBlocks(from, to) == RevertWalk(from, to, <<>>)

RECURSIVE IndexWalkInclusive(_, _, _, _, _)
\* An index walk that writes the height key of `from` too: the closed range.
IndexWalkInclusive(st, from, to, failAt, n) ==
    IF failAt = n + 1
    THEN [st |-> st, err |-> "ErrStorage", puts |-> n]
    ELSE LET s1 == PutIndex(st, Height(to), to)
             p == GetBlock(ParentHash(to)) IN
         IF to = from
         THEN [st |-> s1, err |-> "", puts |-> n + 1]
         ELSE IF p = Nil
              THEN [st |-> s1, err |-> "ErrMissingParentBlock", puts |-> n + 1]
              ELSE IndexWalkInclusive(s1, from, p, failAt, n + 1)

RECURSIVE IndexWalk(_, _, _, _, _)
\* The loop of buildIndexByBlockHeight: Put the cursor's height key, then move
\* to its parent.  The Put number failAt fails; n Puts were made before.
IndexWalk(st, from, to, failAt, n) ==
    IF to = from
    THEN [st |-> st, err |-> "", puts |-> n]
    ELSE IF failAt = n + 1
         THEN [st |-> st, err |-> "ErrStorage", puts |-> n]
         ELSE LET s1 == PutIndex(st, Height(to), to)
                  p == GetBlock(ParentHash(to)) IN
              IF p = Nil
              THEN [st |-> s1, err |-> "ErrMissingParentBlock", puts |-> n + 1]
              ELSE IndexWalk(s1, from, p, failAt, n + 1)

\* buildIndexByBlockHeight(from, to)
buildIndexByBlockHeight(st, from, to, failAt) == IndexWalk(st, from, to, failAt, 0)

\* An end of SetTailBlock that assigns bc.tailBlock before it stores the tail.
recordNewTailFirst(st, oldTail, newTail, putFails) ==
    IF putFails
    THEN [st |-> st, tail |-> newTail, err |-> "ErrStorage"]
    ELSE [st |-> StoreTail(st, newTail), tail |-> newTail, err |-> ""]

\* The end of SetTailBlock: storeTailToStorage(newTail), and only then
\* bc.tailBlock = newTail.
recordNewTail(st, oldTail, newTail, putFails) ==
    IF putFails
    THEN [st |-> st, tail |-> oldTail, err |-> "ErrStorage"]
    ELSE [st |-> StoreTail(st, newTail), tail |-> newTail, err |-> ""]

\* A SetTailBlock that returns the error of revertBlocks.
revertErrorReturned(err) == err

\* What SetTailBlock returns of the error of revertBlocks: it is logged, and
\* "the errors can be skipped".
revertErrorSurfaced(err) == ""

\* The most storage Puts one SetTailBlock makes: a height key per height, and the tail.
MaxSetPuts == Height(MaxBlock) + 1

\* SetTailBlock(newTail); the Put number failAt of the call fails (0: none does).
SetTailBlock(newTail, failAt) ==
    /\ pc = "idle"
    /\ failAt = 0 \/ hist.faults < MaxFaults
    /\ LET ancestor == FindCommonAncestorWithTail(newTail)
           c == [NoCall EXCEPT !.op = "set", !.newTail = newTail,
                               !.oldTail = tailBlock, !.pre = storage,
                               !.preDetached = detachedTailBlocks]
           h0 == [hist EXCEPT !.unstored = @ \/ newTail \notin storage.blocks]
       IN
       IF ancestor = Nil
       THEN /\ call' = [c EXCEPT !.result = "ErrMissingParentBlock"]
            /\ hist' = [h0 EXCEPT !.setFailed = TRUE]
            /\ UNCHANGED <<storage, tailBlock>>
       ELSE LET rv == revertBlocks(ancestor, tailBlock)
                bi == buildIndexByBlockHeight(storage, ancestor, newTail, failAt)
                d == [c EXCEPT !.ancestor = ancestor, !.returned = rv.returned,
                               !.revertErr = rv.err, !.puts = bi.puts]
            IN
            IF revertErrorSurfaced(rv.err) # ""
            THEN /\ call' = [d EXCEPT !.result = revertErrorSurfaced(rv.err), !.puts = 0]
                 /\ hist' = [h0 EXCEPT !.setFailed = TRUE]
                 /\ UNCHANGED <<storage, tailBlock>>
            ELSE IF bi.err # ""
            THEN /\ storage' = bi.st
                 /\ call' = [d EXCEPT !.result = bi.err]
                 /\ hist' = [h0 EXCEPT !.setFailed = TRUE,
                                       !.partial = @ \/ bi.puts > 0,
                                       !.faults = IF bi.err = "ErrStorage"
                                                  THEN @ + 1 ELSE @]
                 /\ UNCHANGED tailBlock
            ELSE LET r == recordNewTail(bi.st, tailBlock, newTail,
                                        failAt = bi.puts + 1) IN
                 /\ storage' = r.st
                 /\ tailBlock' = r.tail
                 /\ call' = [d EXCEPT
                               !.result = IF r.err = "" THEN "ok" ELSE r.err,
                               !.puts = IF r.err = "" THEN bi.puts + 1 ELSE bi.puts]
                 /\ hist' = IF r.err = ""
                            THEN [h0 EXCEPT !.lastHead = newTail]
                            ELSE [h0 EXCEPT !.setFailed = TRUE, !.faults = @ + 1]
    /\ pc' = "returned"
    /\ UNCHANGED <<cachedBlocks, detachedTailBlocks>>

-----------------------------------------------------------------------------
(* Ingest of verified blocks *)

\* lru.Cache.ContainsOrAdd: nothing for a key it holds; else the key becomes
\* the most recent one and, over capacity, the least recent one is evicted.
ContainsOrAdd(lru, key) ==
    IF \E k \in 1..Len(lru) : lru[k] = key
    THEN lru
    ELSE IF Len(lru) + 1 > DetachedCap THEN Tail(Append(lru, key))
         ELSE Append(lru, key)

\* lru.Cache.Remove
Remove(lru, key) == SelectSeq(lru, LAMBDA x : x # key)

RECURSIVE Ascending(_)
\* The blocks of S in ascending order: a parent comes before its children.
Ascending(S) ==
    IF S = {} THEN <<>>
    ELSE LET m == CHOOSE x \in S : \A y \in S : x <= y IN
         <<m>> \o Ascending(S \ {m})

\* The batches the block pool links to a parent: blocks that descend from it
\* with nothing missing in between.
LinkedTo(parent) ==
    {S \in SUBSET (Blocks \ {GenesisHash}) :
        /\ S # {}
        /\ Cardinality(S) <= MaxBatch
        /\ \A b \in S : ParentHash(b) = parent \/ ParentHash(b) \in S}

\* The tails of a batch: its blocks with no child in it.
TailsOf(S) == {b \in S : \A c \in S : ParentHash(c) # b}

\* The calls of putVerifiedNewBlocks the block pool can make: a parent, the
\* blocks linked to it (parents first) and their tails.
Batches ==
    {[parent |-> p, all |-> Ascending(S), tails |-> Ascending(TailsOf(S))] :
        <<p, S>> \in {x \in Blocks \X SUBSET Blocks : x[2] \in LinkedTo(x[1])}}

\* A storeBlockToStorage that loses the error of a failed Put.
storeBlockToStorageErrLost(st, b, putFails) ==
    IF putFails THEN [st |-> st, err |-> ""] ELSE [st |-> StoreBlock(st, b), err |-> ""]

\* storeBlockToStorage: the record is Put under the hash, a failure is returned.
storeBlockToStorage(st, b, putFails) ==
    IF putFails
    THEN [st |-> st, err |-> "ErrStorage"]
    ELSE [st |-> StoreBlock(st, b), err |-> ""]

RECURSIVE StoreAll(_, _, _, _, _)
\* The first range loop of putVerifiedNewBlocks from position i: each block
\* into the block cache, then into the storage; the Put number failAt fails.
StoreAll(st, cache, all, i, failAt) ==
    IF i > Len(all)
    THEN [st |-> st, cache |-> cache, err |-> "", puts |-> i - 1]
    ELSE LET r == storeBlockToStorage(st, all[i], failAt = i) IN
         IF r.err # ""
         THEN [st |-> r.st, cache |-> cache \cup {all[i]}, err |-> r.err,
               puts |-> i - 1]
         ELSE StoreAll(r.st, cache \cup {all[i]}, all, i + 1, failAt)

RECURSIVE AddTails(_, _, _)
\* The second range loop of putVerifiedNewBlocks from position i.
AddTails(lru, tails, i) ==
    IF i > Len(tails) THEN lru
    ELSE AddTails(ContainsOrAdd(lru, tails[i]), tails, i + 1)

\* The update of the detached-tails LRU by putVerifiedNewBlocks.
UpdateDetached(lru, parent, tails) == Remove(AddTails(lru, tails, 1), parent)

\* putVerifiedNewBlocks(parent, allBlocks, tailBlocks); the Put number failAt
\* of the call fails (0: none does).
putVerifiedNewBlocks(parent, all, tails, failAt) ==
    /\ pc = "idle"
    /\ failAt = 0 \/ hist.faults < MaxFaults
    /\ GetBlock(parent) # Nil
    /\ LET sa == StoreAll(storage, cachedBlocks, all, 1, failAt)
           c == [NoCall EXCEPT !.op = "put", !.parent = parent, !.all = all,
                               !.tails = tails, !.puts = sa.puts, !.pre = storage,
                               !.preDetached = detachedTailBlocks]
       IN
       /\ storage' = sa.st
       /\ cachedBlocks' = sa.cache
       /\ IF sa.err # ""
          THEN /\ call' = [c EXCEPT !.result = sa.err]
               /\ hist' = [hist EXCEPT !.faults = @ + 1]
               /\ UNCHANGED detachedTailBlocks
          ELSE /\ call' = [c EXCEPT !.result = "ok"]
               /\ detachedTailBlocks' = UpdateDetached(detachedTailBlocks, parent, tails)
               /\ UNCHANGED hist
    /\ pc' = "returned"
    /\ UNCHANGED tailBlock

-----------------------------------------------------------------------------
(* The chain, every handler one action *)

Next ==
    \/ NewBlockChain(TestNetID, "none")
    \/ Return
    \/ Stop
    \/ \E newTail \in Blocks, failAt \in 0..MaxSetPuts : SetTailBlock(newTail, failAt)
    \/ \E b \in Batches, failAt \in 0..MaxBatch :
          /\ failAt <= Len(b.all)
          /\ putVerifiedNewBlocks(b.parent, b.all, b.tails, failAt)

Spec == Init /\ [][Next]_vars

-----------------------------------------------------------------------------
(* putVerifiedNewBlocks, one cache or storage mutation at a time *)

\* The call begins: the block pool hands over a parent the chain knows.
PutBegin(parent, all, tails) ==
    /\ pc = "idle"
    /\ GetBlock(parent) # Nil
    /\ call' = [NoCall EXCEPT !.op = "put", !.parent = parent, !.all = all,
                              !.tails = tails, !.i = 1, !.pre = storage,
                              !.preDetached = detachedTailBlocks]
    /\ pc' = "put_cache"
    /\ UNCHANGED <<storage, tailBlock, cachedBlocks, detachedTailBlocks, hist>>

\* bc.cachedBlocks.ContainsOrAdd(v.Hash().Hex(), v)
PutCacheAdd ==
    /\ pc = "put_cache"
    /\ cachedBlocks' = cachedBlocks \cup {call.all[call.i]}
    /\ pc' = "put_store"
    /\ UNCHANGED <<storage, tailBlock, detachedTailBlocks, call, hist>>

\* bc.storeBlockToStorage(v): an error returns from the call, else the loop
\* goes on to the next block, and after the last one to the tails.
PutStore(putFails) ==
    /\ pc = "put_store"
    /\ ~putFails \/ hist.faults < MaxFaults
    /\ LET r == storeBlockToStorage(storage, call.all[call.i], putFails) IN
       /\ storage' = r.st
       /\ IF r.err # ""
          THEN /\ call' = [call EXCEPT !.result = r.err, !.puts = call.i - 1]
               /\ pc' = "returned"
          ELSE IF call.i < Len(call.all)
               THEN /\ call' = [call EXCEPT !.i = @ + 1]
                    /\ pc' = "put_cache"
               ELSE /\ call' = [call EXCEPT !.i = 1, !.puts = Len(call.all)]
                    /\ pc' = "put_tails"
    /\ hist' = IF putFails THEN [hist EXCEPT !.faults = @ + 1] ELSE hist
    /\ UNCHANGED <<tailBlock, cachedBlocks, detachedTailBlocks>>

\* bc.detachedTailBlocks.ContainsOrAdd(v.Hash().Hex(), v)
PutAddTail ==
    /\ pc = "put_tails"
    /\ detachedTailBlocks' = ContainsOrAdd(detachedTailBlocks, call.tails[call.i])
    /\ IF call.i < Len(call.tails)
       THEN /\ call' = [call EXCEPT !.i = @ + 1]
            /\ pc' = "put_tails"
       ELSE /\ call' = call
            /\ pc' = "put_remove"
    /\ UNCHANGED <<storage, tailBlock, cachedBlocks, hist>>

\* bc.detachedTailBlocks.Remove(parent.Hash().Hex()); return nil
PutRemoveParent ==
    /\ pc = "put_remove"
    /\ detachedTailBlocks' = Remove(detachedTailBlocks, call.parent)
    /\ call' = [call EXCEPT !.result = "ok"]
    /\ pc' = "returned"
    /\ UNCHANGED <<storage, tailBlock, cachedBlocks, hist>>

PutNext ==
    \/ NewBlockChain(TestNetID, "none")
    \/ Return
    \/ Stop
    \/ \E b \in Batches : PutBegin(b.parent, b.all, b.tails)
    \/ PutCacheAdd
    \/ \E putFails \in BOOLEAN : PutStore(putFails)
    \/ PutAddTail
    \/ PutRemoveParent

PutSpec == Init /\ [][PutNext]_vars

-----------------------------------------------------------------------------
(* SetTailBlock, one storage operation at a time *)

\* The call begins: the ancestor search and the revert walk (reads only), then
\* the index walk starts at newTail.
SetBegin(newTail) ==
    /\ pc = "idle"
    /\ LET ancestor == FindCommonAncestorWithTail(newTail)
           c == [NoCall EXCEPT !.op = "set", !.newTail = newTail,
                               !.oldTail = tailBlock, !.pre = storage,
                               !.preDetached = detachedTailBlocks]
           h0 == [hist EXCEPT !.unstored = @ \/ newTail \notin storage.blocks]
       IN
       IF ancestor = Nil
       THEN /\ call' = [c EXCEPT !.result = "ErrMissingParentBlock"]
            /\ hist' = [h0 EXCEPT !.setFailed = TRUE]
            /\ pc' = "returned"
       ELSE LET rv == revertBlocks(ancestor, tailBlock) IN
            /\ call' = [c EXCEPT !.ancestor = ancestor, !.i = newTail,
                                 !.returned = rv.returned, !.revertErr = rv.err]
            /\ hist' = IF revertErrorSurfaced(rv.err) # ""
                       THEN [h0 EXCEPT !.setFailed = TRUE] ELSE h0
            /\ pc' = IF revertErrorSurfaced(rv.err) # ""
                     THEN "returned" ELSE "set_index"
    /\ UNCHANGED <<storage, tailBlock, cachedBlocks, detachedTailBlocks>>

\* One round of the loop of buildIndexByBlockHeight, call.i being `to`: the
\* Put of the height key, then the parent; the loop ends at the ancestor.
SetIndexPut(putFails) ==
    /\ pc = "set_index"
    /\ ~putFails \/ (hist.faults < MaxFaults /\ call.i # call.ancestor)
    /\ IF call.i = call.ancestor
       THEN /\ pc' = "set_tail"
            /\ UNCHANGED <<storage, call, hist>>
       ELSE IF putFails
            THEN /\ pc' = "returned"
                 /\ call' = [call EXCEPT !.result = "ErrStorage"]
                 /\ hist' = [hist EXCEPT !.setFailed = TRUE, !.faults = @ + 1,
                                         !.partial = @ \/ call.puts > 0]
                 /\ UNCHANGED storage
            ELSE LET p == GetBlock(ParentHash(call.i)) IN
                 /\ storage' = PutIndex(storage, Height(call.i), call.i)
                 /\ IF p = Nil
                    THEN /\ pc' = "returned"
                         /\ call' = [call EXCEPT !.result = "ErrMissingParentBlock",
                                                 !.puts = @ + 1]
                         /\ hist' = [hist EXCEPT !.setFailed = TRUE, !.partial = TRUE]
                    ELSE /\ pc' = "set_index"
                         /\ call' = [call EXCEPT !.i = p, !.puts = @ + 1]
                         /\ hist' = hist
    /\ UNCHANGED <<tailBlock, cachedBlocks, detachedTailBlocks>>

\* A SetTailBlock that goes on after a failed storeTailToStorage.
afterStoreTailErrSkipped(err) == "set_assign"

\* if err := bc.storeTailToStorage(newTail); err != nil { return err }
afterStoreTail(err) == IF err # "" THEN "returned" ELSE "set_assign"

\* bc.storeTailToStorage(newTail)
SetStoreTail(putFails) ==
    /\ pc = "set_tail"
    /\ ~putFails \/ hist.faults < MaxFaults
    /\ LET r == recordNewTail(storage, tailBlock, call.newTail, putFails) IN
       /\ storage' = r.st
       /\ pc' = afterStoreTail(r.err)
       /\ call' = IF r.err # "" THEN [call EXCEPT !.result = r.err]
                  ELSE [call EXCEPT !.puts = @ + 1]
       /\ hist' = IF r.err # ""
                  THEN [hist EXCEPT !.setFailed = TRUE, !.faults = @ + 1]
                  ELSE hist
    /\ UNCHANGED <<tailBlock, cachedBlocks, detachedTailBlocks>>

\* bc.tailBlock = newTail; return nil
SetAssignHead ==
    /\ pc = "set_assign"
    /\ tailBlock' = call.newTail
    /\ call' = [call EXCEPT !.result = "ok"]
    /\ hist' = [hist EXCEPT !.lastHead = call.newTail]
    /\ pc' = "returned"
    /\ UNCHANGED <<storage, cachedBlocks, detachedTailBlocks>>

SetNext ==
    \/ NewBlockChain(TestNetID, "none")
    \/ Return
    \/ Stop
    \/ \E newTail \in Blocks : SetBegin(newTail)
    \/ \E putFails \in BOOLEAN : SetIndexPut(putFails)
    \/ \E putFails \in BOOLEAN : SetStoreTail(putFails)
    \/ SetAssignHead
    \/ \E b \in Batches : putVerifiedNewBlocks(b.parent, b.all, b.tails, 0)

SetSpec == Init /\ [][SetNext]_vars

-----------------------------------------------------------------------------
(* Restarts: any genesis configuration, any storage fault at bootstrap.     *)
(* Between restarts the chain ingests children of genesis and sets heads.   *)

BootNext ==
    \/ \E cfg \in ChainIDs, fault \in BootFaults : NewBlockChain(cfg, fault)
    \/ Return
    \/ Stop
    \/ \E newTail \in Blocks : SetTailBlock(newTail, 0)
    \/ \E b \in Batches :
          /\ b.parent = GenesisHash
          /\ Len(b.all) = 1
          /\ putVerifiedNewBlocks(b.parent, b.all, b.tails, 0)

BootSpec == Init /\ [][BootNext]_vars

-----------------------------------------------------------------------------
(* Descendant fetcher *)

\* The most blocks a caller of FetchDescendantInCanonicalChain asks for.
MaxFetch == 3

\* The values of the argument n, an int: negative ones too.
FetchCounts == (0 - 1)..MaxFetch

\* The modulus of the conversion uint64(n).  The source has 2^64; the model
\* keeps the wrap-around with a modulus above every height and every count.
Uint64Mod == 2^16

\* uint64(n) of an int n
ToUint64(n) == n % Uint64Mod

RECURSIVE FetchLoop(_, _, _, _)
\* The loop of FetchDescendantInCanonicalChain: index counts the blocks
\* fetched, res holds them.
FetchLoop(curHeight, index, res, n) ==
    IF curHeight + index <= Height(tailBlock) /\ index < ToUint64(n)
    THEN LET block == GetBlockByHeight(curHeight + index) IN
         IF block = Nil
         THEN [res |-> <<>>, err |-> "ErrCannotFindBlockAtGivenHeight"]
         ELSE FetchLoop(curHeight, index + 1, Append(res, block), n)
    ELSE [res |-> res, err |-> ""]

\* FetchDescendantInCanonicalChain(n, block)
FetchDescendantInCanonicalChain(n, block) == FetchLoop(Height(block) + 1, 0, <<>>, n)

-----------------------------------------------------------------------------
(* What the properties speak of *)

RECURSIVE AncestorAt(_, _)
\* The block at height h on the parent path of b (h <= Height(b)).
AncestorAt(b, h) == IF Height(b) <= h THEN b ELSE AncestorAt(ParentHash(b), h)

\* The blocks on the path from b back to genesis.
PathOf(b) == {AncestorAt(b, h) : h \in 0..Height(b)}

\* The height index resolves every height up to H to the block of H's path.
CanonicalFor(H) == \A h \in 0..Height(H) : GetBlockByHeight(h) = AncestorAt(H, h)

\* The same of the storage st: the entry is the block of H's path, and
\* GetBlock finds that block.
CanonicalIn(st, H) ==
    \A h \in 0..Height(H) :
        /\ st.index[h] = AncestorAt(H, h)
        /\ st.index[h] \in cachedBlocks \cup st.blocks

\* The height index alone holds, up to H's height, the blocks of H's path.
IndexFor(H) == \A h \in 0..Height(H) : storage.index[h] = AncestorAt(H, h)

\* The record of b and of every ancestor of b is in the block store.
ChainStored(b) == PathOf(b) \subseteq storage.blocks

\* The common ancestor (or self) of a and b of maximum height.
LowestCommonAncestor(a, b) ==
    CHOOSE c \in PathOf(a) \cap PathOf(b) :
        \A d \in PathOf(a) \cap PathOf(b) : Height(d) <= Height(c)

\* The blocks of old's path above the height of anc, highest first.
PathAbove(old, anc) ==
    IF Height(old) <= Height(anc) THEN <<>>
    ELSE [k \in 1..(Height(old) - Height(anc)) |->
             AncestorAt(old, Height(old) - k + 1)]

\* The elements of a sequence.
Range(q) == {q[k] : k \in 1..Len(q)}

\* A chain is running and no call is in progress.
Settled == pc \in {"idle", "returned"} /\ tailBlock # Nil

\* A call of SetTailBlock has just returned.
SetReturned == pc = "returned" /\ call.op = "set"

-----------------------------------------------------------------------------
(* Properties *)

\* C1: after calls of SetTailBlock that all succeeded, ending with head H,
\* GetBlockByHeight(h) is, for every height h from genesis to H's, the block
\* at height h on the path from H back to genesis.
C1_CanonicalPath == (Settled /\ ~hist.setFailed) => CanonicalFor(tailBlock)

\* C2: with the head and the target stored together with all their ancestors,
\* FindCommonAncestorWithTail(target) is their common ancestor of maximum height.
C2_CommonAncestor ==
    Settled =>
        \A B \in Blocks :
            (ChainStored(tailBlock) /\ ChainStored(B)) =>
                FindCommonAncestorWithTail(B) = LowestCommonAncestor(tailBlock, B)

\* C3: when SetTailBlock returns an error, the head in memory is the block it
\* was before the call and the stored head pointer is what it was.
C3_ErrorKeepsHead ==
    (SetReturned /\ call.result # "ok") =>
        (tailBlock = call.oldTail /\ storage.tail = call.pre.tail)

\* C3 witness: SetTailBlock returned a storage error after it wrote index entries.
C3_Witness ==
    /\ SetReturned
    /\ call.result = "ErrStorage"
    /\ call.puts > 0
    /\ storage.index # call.pre.index

\* C4: between calls the stored head pointer is the hash of the head in
\* memory, and a restart loads as head the block of the last successful
\* SetTailBlock (genesis, if there was none).
C4_HeadRecovery ==
    /\ Settled => storage.tail = tailBlock
    /\ (pc = "returned" /\ call.op = "boot" /\ hist.lastHead # Nil) =>
          (call.result = "ok" /\ tailBlock = hist.lastHead)

\* C5: a successful SetTailBlock invokes ReturnTransactions exactly on the
\* blocks of the old path above the common ancestor, from the old head
\* downward, once each: never on the ancestor, on genesis or on a block of the
\* new head's path; the count is oldHead.height - ancestor.height.  Stated of
\* runs in which every block given to SetTailBlock was in the block store.
C5_RevertRange ==
    (SetReturned /\ call.result = "ok" /\ ~hist.unstored) =>
        /\ call.returned = PathAbove(call.oldTail, call.ancestor)
        /\ Len(call.returned) = Height(call.oldTail) - Height(call.ancestor)
        /\ Range(call.returned) \cap ({GenesisHash, call.ancestor} \cup PathOf(call.newTail)) = {}

\* C6: after a SetTailBlock that failed while it built the index and left
\* entries written, the next successful SetTailBlock(N) leaves the height
\* index equal, at every height up to N's, to the block of N's path.  Stated
\* of runs in which every block given to SetTailBlock was in the block store.
C6_NextReorgRepairs ==
    (SetReturned /\ call.result = "ok" /\ hist.partial /\ ~hist.unstored) =>
        IndexFor(tailBlock)

\* C7: the stored head pointer, when present, is the hash of a block whose
\* record is in the block store.
C7_HeadPointerStored == storage.tail # Nil => storage.tail \in storage.blocks

\* C8: SetTailBlock(currentHead), the height index being canonical for the
\* head, invokes ReturnTransactions on no block, writes no index entry and no
\* block record, rewrites at most the head pointer, with the value it holds,
\* and leaves the head in memory as it is.
C8_SetCurrentHead ==
    (SetReturned /\ call.newTail = call.oldTail /\ CanonicalIn(call.pre, call.oldTail)) =>
        /\ call.returned = <<>>
        /\ storage = call.pre
        /\ tailBlock = call.oldTail
        /\ call.ancestor = call.oldTail
        /\ call.puts = (IF call.result = "ok" THEN 1 ELSE 0)

\* C8 witness: SetTailBlock(currentHead) succeeded on a head above genesis
\* with a canonical index.
C8_Witness ==
    /\ SetReturned
    /\ call.newTail = call.oldTail
    /\ CanonicalIn(call.pre, call.oldTail)
    /\ Height(call.oldTail) > 0
    /\ call.result = "ok"

\* C9: with every SetTailBlock so far successful, and given a stored block, no
\* hash of the detached-tails set is the hash of the head or of an ancestor of
\* the head.
C9_DetachedOffChain ==
    (Settled /\ ~hist.setFailed /\ ~hist.unstored) =>
        DetachedTailBlocks \cap PathOf(tailBlock) = {}

\* C10: putVerifiedNewBlocks writes every record of allBlocks before it touches
\* the detached-tails set, and a failed write returns with the set untouched;
\* so at every step every block of the detached-tails set has its record in
\* the block store.
C10_TailsAfterRecords ==
    /\ DetachedTailBlocks \subseteq storage.blocks
    /\ (call.op = "put" /\ detachedTailBlocks # call.preDetached) =>
          Range(call.all) \subseteq storage.blocks
    /\ (pc = "returned" /\ call.op = "put" /\ call.result # "ok") =>
          detachedTailBlocks = call.preDetached

\* C10 witness: between two steps of a call, its blocks stored, the tail is in
\* the set and the parent, a detached tail, is not yet removed from it.
C10_Witness ==
    /\ pc = "put_remove"
    /\ call.puts = Len(call.all)
    /\ call.parent \in DetachedTailBlocks
    /\ Range(call.tails) \subseteq DetachedTailBlocks

\* C11: every block held in the block cache has its record in the block store,
\* also after a putVerifiedNewBlocks that failed part-way with a storage error.
C11_CacheStored == cachedBlocks \subseteq storage.blocks

\* The number of blocks FetchDescendantInCanonicalChain(n, B) is to return; a
\* list has no negative length, so a count below zero asks for no block.
FetchLength(n, B) ==
    IF Height(B) >= Height(tailBlock) \/ n <= 0 THEN 0
    ELSE Min(n, Height(tailBlock) - Height(B))

\* C12: FetchDescendantInCanonicalChain(n, B) returns, for every B and every n,
\* min(n, head.height - B.height) blocks (none when B is not below the head),
\* never more than n, the i-th being the block of the head's path at height
\* B.height + i; when a height in that range does not resolve it returns
\* ErrCannotFindBlockAtGivenHeight and no list.  Stated of states whose height
\* index is canonical for the head or misses a block.
C12_FetchDescendants ==
    Settled =>
        \A B \in Blocks, n \in FetchCounts :
            LET r == FetchDescendantInCanonicalChain(n, B)
                m == FetchLength(n, B)
                wanted == (Height(B) + 1)..(Height(B) + m)
            IN
            IF \E h \in wanted : GetBlockByHeight(h) = Nil
            THEN r.err = "ErrCannotFindBlockAtGivenHeight" /\ r.res = <<>>
            ELSE CanonicalFor(tailBlock) =>
                    /\ r.err = ""
                    /\ Len(r.res) = m
                    /\ n >= 0 => Len(r.res) <= n
                    /\ \A i \in 1..Len(r.res) :
                          r.res[i] = AncestorAt(tailBlock, Height(B) + i)

\* A call of NewBlockChain has just returned.
BootReturned == pc = "returned" /\ call.op = "boot"

\* C13: NewBlockChain on an empty storage ends with the genesis record stored,
\* the height key of the genesis height naming it, the stored head pointer
\* and the head in memory being genesis, GetBlockByHeight(genesis.height)
\* returning it, and no detached tail.
C13_FreshBootstrap ==
    (BootReturned /\ call.pre = EmptyStorage /\ call.result = "ok") =>
        /\ GenesisHash \in storage.blocks
        /\ storage.index[Height(GenesisHash)] = GenesisHash
        /\ storage.tail = GenesisHash
        /\ tailBlock = GenesisHash
        /\ GetBlockByHeight(Height(GenesisHash)) = GenesisHash
        /\ DetachedTailBlocks = {}
        /\ storage.chainid = call.cfg

\* C13 witness: a first bootstrap succeeded on the empty storage.
C13_Witness ==
    /\ BootReturned
    /\ call.pre = EmptyStorage
    /\ call.result = "ok"
    /\ hist.genesisMade = 1

\* The genesis lookup of the call met an error other than key-not-found.
GenesisReadFailed ==
    \/ call.fault = "readGenesis"
    \/ call.fault = "readGenesisAgain" /\ call.pre.tail = Nil

\* C14: over the lifetime of one storage, whatever the restarts and the read
\* outcomes, a genesis block is constructed and written at most once; a
\* genesis lookup that fails otherwise than with key-not-found, on a storage
\* that holds a genesis record, makes the bootstrap return the error with the
\* storage as it was.
C14_GenesisOnce ==
    /\ hist.genesisMade <= 1
    /\ (BootReturned /\ GenesisReadFailed /\ GenesisHash \in call.pre.blocks) =>
          (call.result # "ok" /\ storage = call.pre)

\* C15: a bootstrap on a storage whose genesis record carries a chain id other
\* than the configured one fails with ErrGenesisConfNotMatch, returns no
\* chain and leaves the storage (genesis record, height index, head pointer)
\* as it was.
C15_GenesisMismatch ==
    (BootReturned /\ GenesisHash \in call.pre.blocks /\ call.pre.chainid # call.cfg) =>
        /\ call.result = "ErrGenesisConfNotMatch"
        /\ tailBlock = Nil
        /\ storage = call.pre

RECURSIVE KnownDownTo(_, _)
\* Every parent lookup of the walk from the known block b down to height h finds its block.
KnownDownTo(b, h) ==
    Height(b) <= h \/ (GetBlock(ParentHash(b)) # Nil /\ KnownDownTo(ParentHash(b), h))

RECURSIVE KnownToMeet(_, _)
\* Every parent lookup of the walk-to-meet from two blocks of one height finds its block.
KnownToMeet(a, b) ==
    \/ a = b
    \/ /\ GetBlock(ParentHash(a)) # Nil
       /\ GetBlock(ParentHash(b)) # Nil
       /\ KnownToMeet(ParentHash(a), ParentHash(b))

\* A parent lookup of the height alignment or of the walk-to-meet of the
\* search from the known block `target` misses.
WalkMisses(target) ==
    LET low == Min(Height(tailBlock), Height(target)) IN
    \/ ~KnownDownTo(tailBlock, low)
    \/ ~KnownDownTo(target, low)
    \/ ~KnownToMeet(AncestorAt(tailBlock, low), AncestorAt(target, low))

\* The case of C16 for the target B: neither B nor its parent has a record in
\* the block store, or the walk from the block the search starts at misses a
\* parent.
SearchMisses(B) ==
    \/ B \notin storage.blocks /\ ParentHash(B) \notin storage.blocks
    \/ /\ ~FastPathHit(B)
       /\ AnchorOf(B) # Nil
       /\ WalkMisses(AnchorOf(B))

\* C16: when the target and its parent are both not stored, or a parent lookup
\* misses during the height alignment or the walk-to-meet,
\* FindCommonAncestorWithTail returns ErrMissingParentBlock; SetTailBlock then
\* returns that error with ReturnTransactions invoked on no block, no storage
\* write made and the head unchanged.
C16_MissingParent ==
    /\ (pc = "idle" /\ tailBlock # Nil) =>
          \A B \in Blocks : SearchMisses(B) => FindCommonAncestorWithTail(B) = Nil
    /\ (SetReturned /\ call.ancestor = Nil) =>
          /\ call.result = "ErrMissingParentBlock"
          /\ call.returned = <<>>
          /\ call.puts = 0
          /\ storage = call.pre
          /\ tailBlock = call.oldTail

\* Every block of newTail's path above the ancestor has its height key written.
IndexBuilt ==
    \A h \in (Height(call.ancestor) + 1)..Height(call.newTail) :
        storage.index[h] = AncestorAt(call.newTail, h)

\* C17: within one SetTailBlock(newHead) every height-key write for the blocks
\* in (LCA, newHead] comes before the head-pointer write, and the head-pointer
\* write before the assignment of the head in memory: at every boundary
\* between storage operations the stored head pointer is oldHead or newHead,
\* and the head in memory is never newHead while the pointer is still oldHead.
C17_StepOrder ==
    call.op = "set" =>
        /\ storage.tail \in {call.oldTail, call.newTail}
        /\ tailBlock \in {call.oldTail, call.newTail}
        /\ (tailBlock = call.newTail) => (storage.tail = call.newTail)
        /\ pc \in {"set_index", "set_tail"} =>
              (storage.tail = call.oldTail /\ tailBlock = call.oldTail)
        /\ pc \in {"set_tail", "set_assign"} => IndexBuilt
        /\ pc = "set_assign" =>
              (storage.tail = call.newTail /\ tailBlock = call.oldTail)
        /\ (pc = "returned" /\ call.result = "ok") => IndexBuilt

\* C17 witness: between the head-pointer write and the assignment of the head
\* in memory, in a reorganisation that wrote two height keys.
C17_Witness ==
    /\ pc = "set_assign"
    /\ call.newTail # call.oldTail
    /\ call.puts = 3
    /\ storage.tail = call.newTail
    /\ tailBlock = call.oldTail
    /\ call.returned # <<>>

\* The reference update of the detached tails: the parent is removed first,
\* then each new tail is inserted.
RemoveThenInsert(lru, parent, tails) == AddTails(Remove(lru, parent), tails, 1)

\* C18: a successful putVerifiedNewBlocks leaves the detached-tails set equal
\* to the one the remove-then-insert reference gives from the set before the
\* call, a full set that holds the parent included: the parent's slot taken
\* by a new tail, no other detached tail is evicted.
C18_RemoveThenInsert ==
    (pc = "returned" /\ call.op = "put" /\ call.result = "ok") =>
        DetachedTailBlocks =
            Range(RemoveThenInsert(call.preDetached, call.parent, call.tails))

\* The index walk from newTail misses a parent before it reaches the ancestor.
ReindexMisses ==
    \E h \in (Height(call.ancestor) + 1)..Height(call.newTail) :
        GetBlock(ParentHash(AncestorAt(call.newTail, h))) = Nil

\* C19: a parent-lookup miss of the revert phase never makes SetTailBlock fail
\* or skip a later phase: unless a storage Put fails or the index walk itself
\* misses a parent, the call writes the height key of every block in
\* (LCA, newHead] and the head pointer, sets the head in memory and returns
\* success; SetTailBlock returns ErrMissingParentBlock only from the ancestor
\* search or from the index walk.
C19_RevertMissSkipped ==
    /\ (SetReturned /\ call.revertErr # "") =>
          /\ call.result \in {"ok", "ErrStorage", "ErrMissingParentBlock"}
          /\ call.result = "ErrMissingParentBlock" => ReindexMisses
          /\ call.result = "ok" =>
                (IndexBuilt /\ storage.tail = call.newTail /\ tailBlock = call.newTail)
    /\ (SetReturned /\ call.result = "ErrMissingParentBlock") =>
          (call.ancestor = Nil \/ ReindexMisses)

\* C19 witness: the revert walk reverted blocks, missed a parent, and
\* SetTailBlock moved the head and returned success.
C19_Witness ==
    /\ SetReturned
    /\ call.revertErr = "ErrMissingParentBlock"
    /\ call.returned # <<>>
    /\ call.result = "ok"
    /\ call.newTail # call.oldTail
    /\ tailBlock = call.newTail
    /\ storage.tail = call.newTail

\* C20: a successful SetTailBlock(newHead) with common ancestor LCA writes the
\* height keys of the heights in (LCA.height, newHead.height] and the head
\* pointer, and nothing else: the height keys at and below LCA.height, those
\* above newHead.height and every block record are as before; with
\* LCA = newHead no height key is written and only the head pointer moves.
C20_WriteFrame ==
    (SetReturned /\ call.result = "ok") =>
        /\ IndexBuilt
        /\ \A h \in Heights :
              (h <= Height(call.ancestor) \/ h > Height(call.newTail)) =>
                  storage.index[h] = call.pre.index[h]
        /\ storage.blocks = call.pre.blocks
        /\ storage.chainid = call.pre.chainid
        /\ storage.tail = call.newTail
        /\ call.puts = Height(call.newTail) - Height(call.ancestor) + 1
        /\ call.ancestor = call.newTail =>
              (storage.index = call.pre.index /\ call.puts = 1)

\* C20 witness: a reorganisation to the other branch succeeded: two height
\* keys that named the old branch are rewritten, the genesis key is kept.
C20_Witness ==
    /\ SetReturned
    /\ call.result = "ok"
    /\ Height(call.newTail) - Height(call.ancestor) = 2
    /\ \A h \in 1..2 : call.pre.index[h] \notin {Nil, storage.index[h]}
    /\ storage.index[0] = call.pre.index[0]

====
